---- MODULE Spec2Model ----
(***************************************************************************)
(* Model of the NestJS/Fastify service: the Joi configuration schema       *)
(* (src/config/config.schema.ts), its use by ConfigModule.forRoot          *)
(* (src/app.module.ts), the bootstrap sequence (main.ts), the rate limiter *)
(* and helmet plugins registered there, and the two routes of              *)
(* AppController / AppService.                                             *)
(*                                                                         *)
(* Strings that are parsed (environment values) are tuples of one-letter   *)
(* strings; strings that are only compared or concatenated (paths, bodies) *)
(* are TLA+ strings.                                                       *)
(***************************************************************************)
EXTENDS Integers, Sequences, FiniteSets, Bags, TLC

VARIABLES
    env,         \* process.env as read by ConfigModule.forRoot: key -> raw value
    pc,          \* position of the process: load, create, helmet, rateLimit, init,
                 \* listen, listening, exited (schema, validated: the schema alone)
    validation,  \* result of ConfigValidationSchema.validate, or NotRun
    validations, \* how many times the schema has been run
    stderr,      \* error details the process has written for the operator
    exitCode,    \* -1 while running, else the exit status
    helmetOn,    \* @fastify/helmet registered
    rateLimitOn, \* @fastify/rate-limit registered
    routes,      \* routes bound on the Fastify instance
    listenPort,  \* port handed to app.listen, -1 before
    now,         \* Date.now() in ms since the process started
    store,       \* rate limiter's LocalStore: client -> [present, current, iterationStartMs]
    resp,        \* last response sent (status 0: none / connection refused)
    inflight,    \* bag of the requests accepted from sockets whose hooks have
                 \* not run yet
    counted,     \* requests the limiter has counted and whose hook waits for
                 \* the result of the count, in order
    pending,     \* replies of the requests whose handler has been called, in
                 \* the order of the calls, not yet sent
    calls,       \* results of the calls made on an AppService instance, oldest first
    tally,       \* observer: client -> its requests to routes in its running
                 \* window and how they were answered
    probe        \* observer: one minute starting at a time of the observer's
                 \* choosing, and how a client's requests to routes fared in it

vars == <<env, pc, validation, validations, stderr, exitCode, helmetOn,
          rateLimitOn, routes, listenPort, now, store, resp, inflight, pending, counted,
          calls, tally, probe>>

-----------------------------------------------------------------------------
(* Bounds of the model *)

\* clock steps of TickMs explored
MaxTicks == 2
\* granularity of the clock, ms
TickMs == 30000
\* requests a client may send beyond the quota inside one window
MaxExcess == 2
\* requests accepted and not yet run at one time
MaxInflight == 3
\* calls made on one AppService instance
MaxCalls == 6
\* calls made on one AppController instance
MaxControllerCalls == 3

(* Program constants *)

\* rateLimit max
Max == 100
\* rateLimit timeWindow "1 minute", in ms
TimeWindow == 60000
\* Joi .min(1) / .max(65535) / .default(3000) of PORT
PortMin == 1
PortMax == 65535
PortDefault == 3000

Clients == {"10.0.0.1"}
\* the clients of the runs with more than one
AllClients == Clients \cup {"10.0.0.2"}

-----------------------------------------------------------------------------
(* Raw and normalised configuration values *)

Undef == [t |-> "undefined", n |-> 0, frac |-> FALSE, s |-> <<>>]
Num(k) == [t |-> "number", n |-> k, frac |-> FALSE, s |-> <<>>]
\* the non-integer number k + 1/2
Half(k) == [t |-> "number", n |-> k, frac |-> TRUE, s |-> <<>>]
Str(cs) == [t |-> "string", n |-> 0, frac |-> FALSE, s |-> cs]

Digit == {"0", "1", "2", "3", "4", "5", "6", "7", "8", "9"}
Alpha == {"a", "b", "c", "d", "e", "f", "g", "h", "i", "j", "k", "l", "m",
          "n", "o", "p", "q", "r", "s", "t", "u", "v", "w", "x", "y", "z",
          "A", "B", "C", "D", "E", "F", "G", "H", "I", "J", "K", "L", "M",
          "N", "O", "P", "Q", "R", "S", "T", "U", "V", "W", "X", "Y", "Z"}
\* JavaScript's white space (\s of a regular expression, trim, parseInt),
\* all 25 characters: tab, line feed, vertical tab, form feed, carriage
\* return, the blank, U+00A0, U+1680, U+FEFF, U+2000 to U+200A, U+2028,
\* U+2029, U+202F, U+205F and U+3000. A text is a sequence of characters; a
\* character that cannot be written in a string of this module is the
\* sequence element named by its code point
Space ==
    {"\t", "\n", "", "\f", "\r", " ", " ", " ", "﻿",
     "U+2000", "U+2001", "U+2002", "U+2003", "U+2004", "U+2005",
     "U+2006", "U+2007", "U+2008", "U+2009", "U+200A", "U+2028",
     "U+2029", "U+202F", "U+205F", "U+3000"}

DigitVal(ch) ==
    CASE ch = "0" -> 0 [] ch = "1" -> 1 [] ch = "2" -> 2 [] ch = "3" -> 3
      [] ch = "4" -> 4 [] ch = "5" -> 5 [] ch = "6" -> 6 [] ch = "7" -> 7
      [] ch = "8" -> 8 [] ch = "9" -> 9

IsDigits(cs) == \A i \in 1..Len(cs) : cs[i] \in Digit

RECURSIVE DecimalValue(_)
DecimalValue(cs) ==
    IF cs = <<>> THEN 0
    ELSE DecimalValue(SubSeq(cs, 1, Len(cs) - 1)) * 10 + DigitVal(cs[Len(cs)])

RECURSIVE Pow10(_)
Pow10(k) == IF k <= 0 THEN 1 ELSE 10 * Pow10(k - 1)

RECURSIVE TrimLeft(_)
TrimLeft(cs) ==
    IF cs # <<>> /\ cs[1] \in Space THEN TrimLeft(Tail(cs)) ELSE cs

RECURSIVE TrimRight(_)
TrimRight(cs) ==
    IF cs # <<>> /\ cs[Len(cs)] \in Space
    THEN TrimRight(SubSeq(cs, 1, Len(cs) - 1)) ELSE cs

Trim(cs) == TrimRight(TrimLeft(cs))

\* first index of cs holding a member of S, 0 when there is none
IndexOf(cs, S) ==
    IF \E i \in 1..Len(cs) : cs[i] \in S
    THEN CHOOSE i \in 1..Len(cs) :
            cs[i] \in S /\ \A j \in 1..(i - 1) : cs[j] \notin S
    ELSE 0

-----------------------------------------------------------------------------
(* Joi: what the schema's types do with a raw value *)

\* the part of cs before / after the first member of S (all of it / nothing
\* when there is none)
Before(cs, S) ==
    IF IndexOf(cs, S) = 0 THEN cs ELSE SubSeq(cs, 1, IndexOf(cs, S) - 1)
After(cs, S) ==
    IF IndexOf(cs, S) = 0 THEN <<>> ELSE SubSeq(cs, IndexOf(cs, S) + 1, Len(cs))

HasSign(cs) == cs # <<>> /\ cs[1] \in {"+", "-"}
IsNeg(cs) == HasSign(cs) /\ cs[1] = "-"
Unsigned(cs) == IF HasSign(cs) THEN Tail(cs) ELSE cs

\* \d+(\.\d*)? | \.\d+  on the digits before and after the point
MantissaOk(ip, fp, hasDot) ==
    /\ IsDigits(ip)
    /\ IsDigits(fp)
    /\ \/ Len(ip) >= 1
       \/ hasDot /\ Len(fp) >= 1

\* [+-]?\d+ after the e
ExponentOk(expo) == Len(Unsigned(expo)) >= 1 /\ IsDigits(Unsigned(expo))

ExponentValue(expo) ==
    IF IsNeg(expo) THEN 0 - DecimalValue(Unsigned(expo))
    ELSE DecimalValue(Unsigned(expo))

\* the number m * 10^scale with its sign: n is the integer part of the
\* magnitude, signed; frac says that a fractional part is left
Scaled(neg, m, scale) ==
    [matched |-> TRUE,
     n |-> (IF neg THEN 0 - 1 ELSE 1)
           * (IF scale >= 0 THEN m * Pow10(scale) ELSE m \div Pow10(0 - scale)),
     frac |-> scale < 0 /\ m % Pow10(0 - scale) # 0]

CoerceUnsigned(neg, mant, expo, hasExp) ==
    IF /\ MantissaOk(Before(mant, {"."}), After(mant, {"."}), IndexOf(mant, {"."}) # 0)
       /\ hasExp => ExponentOk(expo)
    THEN Scaled(neg, DecimalValue(Before(mant, {"."}) \o After(mant, {"."})),
                ExponentValue(expo) - Len(After(mant, {"."})))
    ELSE [matched |-> FALSE, n |-> 0, frac |-> FALSE]

CoerceTrimmed(t) ==
    CoerceUnsigned(IsNeg(t), Before(Unsigned(t), {"e", "E"}),
                   After(Unsigned(t), {"e", "E"}),
                   IndexOf(Unsigned(t), {"e", "E"}) # 0)

\* Joi.number() given a string (convert is on by default): the string is
\* taken as a number when it matches
\*   ^\s*[+-]?(\d+(\.\d*)?|\.\d+)(e[+-]?\d+)?\s*$   (case-insensitive)
\* and is left a string otherwise
CoerceNumber(cs) == CoerceTrimmed(Trim(cs))

AllIn(cs, S) == \A i \in 1..Len(cs) : cs[i] \in S

\* the character classes of the library's RFC 3986 expressions.  It writes
\* the percent-encoding as %[0-9A-Fa-f] inside a character class, so "%" is
\* a member on its own, and its scheme class +-. is the range "+" to ".".
Unreserved == Alpha \cup Digit \cup {"_", "-", ".", "~"}
SubDelims == {"!", "$", "&", "'", "(", ")", "*", "+", ",", ";", "="}
RegNameChar == Unreserved \cup SubDelims \cup {"%"}
UserInfoChar == RegNameChar \cup {":"}
PChar == RegNameChar \cup {":", "@"}
PathChar == PChar \cup {"/"}
QueryChar == PChar \cup {"/", "?"}
SchemeChar == Alpha \cup Digit \cup {"+", ",", "-", "."}

\* scheme: [a-zA-Z][a-zA-Z\d+-\.]*
SchemeOk(sc) == sc # <<>> /\ sc[1] \in Alpha /\ AllIn(sc, SchemeChar)

\* host(:port)? with a registered name of one character at least for a
\* host (an address in brackets is not covered) and digits for a port
HostPortOk(hp) ==
    /\ Before(hp, {":"}) # <<>>
    /\ AllIn(Before(hp, {":"}), RegNameChar)
    /\ AllIn(After(hp, {":"}), Digit)

\* authority: (userinfo@)?host(:port)?
AuthorityOk(a) ==
    IF IndexOf(a, {"@"}) = 0 THEN HostPortOk(a)
    ELSE AllIn(Before(a, {"@"}), UserInfoChar) /\ HostPortOk(After(a, {"@"}))

\* hier-part: //authority(/segment)*  |  /(segment-nz(/segment)*)?
\*            |  segment-nz(/segment)*  |  ///segment(/segment)*
\* An empty path and an empty authority match none of the four.
HierPartOk(h) ==
    IF Len(h) >= 3 /\ SubSeq(h, 1, 3) = <<"/", "/", "/">>
    THEN AllIn(SubSeq(h, 4, Len(h)), PathChar)
    ELSE IF Len(h) >= 2 /\ SubSeq(h, 1, 2) = <<"/", "/">>
    THEN /\ AuthorityOk(Before(SubSeq(h, 3, Len(h)), {"/"}))
         /\ AllIn(After(SubSeq(h, 3, Len(h)), {"/"}), PathChar)
    ELSE h # <<>> /\ AllIn(h, PathChar)

\* the part of a URI before its query and fragment
UriMain(cs) == Before(Before(cs, {"#"}), {"?"})

\* Joi.string().uri(): ^scheme:hier-part(\?query)?(#fragment)?$
IsUri(cs) ==
    /\ IndexOf(UriMain(cs), {":"}) # 0
    /\ SchemeOk(Before(UriMain(cs), {":"}))
    /\ HierPartOk(After(UriMain(cs), {":"}))
    /\ AllIn(After(Before(cs, {"#"}), {"?"}), QueryChar)
    /\ AllIn(After(cs, {"#"}), QueryChar)

-----------------------------------------------------------------------------
(* ConfigValidationSchema, key by key.  Each gives the normalised value and *)
(* the error types Joi finds for the key, in the order Joi finds them.     *)

sDevelopment == <<"d", "e", "v", "e", "l", "o", "p", "m", "e", "n", "t">>
sProduction == <<"p", "r", "o", "d", "u", "c", "t", "i", "o", "n">>
sTest == <<"t", "e", "s", "t">>

NodeEnvValid == {Str(sDevelopment), Str(sProduction), Str(sTest)}

\* mutant: .valid(...) left out, any string passes
ValidateNodeEnvAnyString(v) ==
    IF v.t = "undefined" THEN [value |-> Str(sDevelopment), errs |-> <<>>]
    ELSE [value |-> v, errs |-> <<>>]

\* NODE_ENV: Joi.string().valid("development", "production", "test")
\*                       .default("development")
ValidateNodeEnv(v) ==
    IF v.t = "undefined" THEN [value |-> Str(sDevelopment), errs |-> <<>>]
    ELSE IF v \in NodeEnvValid THEN [value |-> v, errs |-> <<>>]
    ELSE [value |-> v, errs |-> <<"any.only">>]

\* mutant: the upper limit is exclusive
PortRulesMaxExclusive(n, frac) ==
    (IF frac THEN <<"number.integer">> ELSE <<>>)
    \o (IF n < PortMin THEN <<"number.min">> ELSE <<>>)
    \o (IF n >= PortMax THEN <<"number.max">> ELSE <<>>)

\* the rules .integer().min(1).max(65535), in the order they are declared
PortRules(n, frac) ==
    (IF frac THEN <<"number.integer">> ELSE <<>>)
    \o (IF n < PortMin THEN <<"number.min">> ELSE <<>>)
    \o (IF n > PortMax \/ (n = PortMax /\ frac) THEN <<"number.max">> ELSE <<>>)

\* a string PORT after Joi's conversion c
PortFromString(v, c) ==
    IF ~c.matched THEN [value |-> v, errs |-> <<"number.base">>]
    ELSE [value |-> [Num(c.n) EXCEPT !.frac = c.frac],
          errs |-> PortRules(c.n, c.frac)]

\* mutant: .default(3000) left out
ValidatePortNoDefault(v) ==
    IF v.t = "undefined" THEN [value |-> v, errs |-> <<>>]
    ELSE IF v.t = "number"
    THEN [value |-> v, errs |-> PortRules(v.n, v.frac)]
    ELSE PortFromString(v, CoerceNumber(v.s))

\* PORT: Joi.number().integer().min(1).max(65535).default(3000)
ValidatePort(v) ==
    IF v.t = "undefined" THEN [value |-> Num(PortDefault), errs |-> <<>>]
    ELSE IF v.t = "number"
    THEN [value |-> v, errs |-> PortRules(v.n, v.frac)]
    ELSE PortFromString(v, CoerceNumber(v.s))

\* API_KEY: Joi.string().optional().allow("")
ValidateApiKey(v) ==
    IF v.t \in {"undefined", "string"} THEN [value |-> v, errs |-> <<>>]
    ELSE [value |-> v, errs |-> <<"string.base">>]

\* mutant: .allow("") left out, the empty string is not a URI
ValidateDatabaseUrlNoEmpty(v) ==
    IF v.t = "undefined" THEN [value |-> v, errs |-> <<>>]
    ELSE IF v = Str(<<>>) THEN [value |-> v, errs |-> <<"string.empty">>]
    ELSE IF IsUri(v.s) THEN [value |-> v, errs |-> <<>>]
    ELSE [value |-> v, errs |-> <<"string.uri">>]

\* DATABASE_URL: Joi.string().uri().optional().allow("")
ValidateDatabaseUrl(v) ==
    IF v.t = "undefined" \/ v = Str(<<>>) THEN [value |-> v, errs |-> <<>>]
    ELSE IF v.t # "string" THEN [value |-> v, errs |-> <<"string.base">>]
    ELSE IF IsUri(v.s) THEN [value |-> v, errs |-> <<>>]
    ELSE [value |-> v, errs |-> <<"string.uri">>]

\* the keys of the schema, in the order Joi.object({...}) lists them
SchemaKeys == <<"NODE_ENV", "PORT", "API_KEY", "DATABASE_URL">>
\* keys the environment may hold besides those of the schema
OtherKeys == <<"HOME">>

ValidateKey(k, v) ==
    CASE k = "NODE_ENV" -> ValidateNodeEnv(v)
      [] k = "PORT" -> ValidatePort(v)
      [] k = "API_KEY" -> ValidateApiKey(v)
      [] k = "DATABASE_URL" -> ValidateDatabaseUrl(v)

\* the error details of one key: [path, type]
KeyDetails(k, errs) == [i \in 1..Len(errs) |-> [path |-> k, type |-> errs[i]]]

RECURSIVE SchemaDetails(_, _)
SchemaDetails(e, i) ==
    IF i > Len(SchemaKeys) THEN <<>>
    ELSE KeyDetails(SchemaKeys[i], ValidateKey(SchemaKeys[i], e[SchemaKeys[i]]).errs)
         \o SchemaDetails(e, i + 1)

RECURSIVE UnknownDetails(_, _)
UnknownDetails(e, i) ==
    IF i > Len(OtherKeys) THEN <<>>
    ELSE (IF e[OtherKeys[i]].t # "undefined"
          THEN <<[path |-> OtherKeys[i], type |-> "object.unknown"]>> ELSE <<>>)
         \o UnknownDetails(e, i + 1)

\* the options ConfigModule.forRoot hands to validate(): allowUnknown is set,
\* abortEarly is not, so Joi's own default (true) applies
\* mutant: allowUnknown left out
ValidationOptionsStrict == [allowUnknown |-> FALSE, abortEarly |-> TRUE]

ValidationOptions == [allowUnknown |-> TRUE, abortEarly |-> TRUE]

\* every error detail of the mapping: the schema's keys in order, then the
\* keys the schema does not know, unless they are allowed
AllDetails(e, opts) ==
    SchemaDetails(e, 1) \o (IF opts.allowUnknown THEN <<>> ELSE UnknownDetails(e, 1))

\* with abortEarly Joi stops at the first error
Reported(all, opts) ==
    IF opts.abortEarly /\ Len(all) > 1 THEN <<all[1]>> ELSE all

\* the mapping with defaults applied and values converted
Normalised(e) ==
    [k \in DOMAIN e |->
        IF k \in {"NODE_ENV", "PORT", "API_KEY", "DATABASE_URL"}
        THEN ValidateKey(k, e[k]).value ELSE e[k]]

Outcome(value, details) ==
    [ok |-> details = <<>>, value |-> value, details |-> details]

\* ConfigValidationSchema.validate(e, opts)
Validate(e, opts) == Outcome(Normalised(e), Reported(AllDetails(e, opts), opts))

NotRun == [ok |-> FALSE, value |-> <<>>, details |-> <<>>]

-----------------------------------------------------------------------------
(* The environments explored *)

sStaging == <<"s", "t", "a", "g", "i", "n", "g">>
s4000 == <<"4", "0", "0", "0">>
s70000 == <<"7", "0", "0", "0", "0">>
sPgUrl == <<"p", "g", ":", "/", "/", "h", "/", "d">>
\* pg://u:p@h:5/d?s=1#f
sPgUrlFull == <<"p", "g", ":", "/", "/", "u", ":", "p", "@", "h", ":", "5", "/", "d",
                "?", "s", "=", "1", "#", "f">>
sFileUrl == <<"f", "i", "l", "e", ":", "/", "/", "/", "d">>
sNoScheme == <<":", "/", "/", "h">>
sSpaceInPath == <<"p", "g", ":", "/", "/", "h", "/", "a", " ", "b">>

NodeEnvInputs ==
    {Undef, Str(sDevelopment), Str(sProduction), Str(sTest), Str(sStaging),
     Str(<<"P", "r", "o", "d", "u", "c", "t", "i", "o", "n">>), Str(<<>>)}

PortInputs ==
    {Undef, Num(0), Num(1), Num(4000), Num(65535), Num(65536), Num(70000),
     Num(0 - 1), Half(4000), Half(65535), Half(0),
     Str(s4000), Str(s70000), Str(<<"0">>), Str(<<"1">>),
     Str(<<"6", "5", "5", "3", "5">>), Str(<<"6", "5", "5", "3", "6">>),
     Str(<<>>), Str(<<"a", "b", "c">>), Str(<<" ", "8", "0", " ">>),
     Str(<<"\t", "8", "0">>), Str(<<"\n", "8", "0", "\r">>),
     Str(<<"", "8", "0">>), Str(<<"\f", " ", "8", "0", "﻿">>),
     Str(<<"U+2000", "8", "0">>), Str(<<"U+3000", "U+2028", "8", "0", "U+202F">>),
     Str(<<"4", "0", "0", "0", ".", "5">>), Str(<<"4", "0", "0", "0", ".", "0">>),
     Str(<<"1", "e", "3">>), Str(<<".", "5", "e", "1">>), Str(<<"5", "e", "-", "1">>),
     Str(<<"-", "1">>), Str(<<"+", "8", "0">>), Str(<<"0", "x", "1", "0">>),
     Str(<<"8", "0", "8", "0", "a">>)}

ApiKeyInputs == {Undef, Str(<<>>), Str(<<"k", "3", "y">>), Str(<<" ", "#">>)}

DatabaseUrlInputs ==
    {Undef, Str(<<>>), Str(sPgUrl), Str(sPgUrlFull), Str(sFileUrl),
     Str(<<"d", "b">>), Str(<<"a", " ", "b">>), Str(sNoScheme), Str(sSpaceInPath)}

HomeInputs == {Undef, Str(<<"/", "r">>)}

\* every mapping handed to the schema
EnvInputs ==
    [NODE_ENV : NodeEnvInputs, PORT : PortInputs, API_KEY : ApiKeyInputs,
     DATABASE_URL : DatabaseUrlInputs, HOME : HomeInputs]

\* process.env of the started process: every value is a string or unset
StartupEnvs ==
    [NODE_ENV : {Undef, Str(sProduction), Str(sStaging)},
     PORT : {Undef, Str(s4000), Str(s70000), Str(<<>>), Str(<<"1", "e", "3">>),
             Str(<<".", "5", "e", "1">>), Str(<<"\t", "8", "0">>),
             Str(<<"U+2000", "8", "0">>)},
     API_KEY : {Undef},
     DATABASE_URL : {Undef, Str(<<"d", "b">>)},
     HOME : {Undef, Str(<<"/", "r">>)}]

-----------------------------------------------------------------------------
(* AppService, AppController and what Fastify sends for their results *)

AppService_getHelloLower == "Hello world!"
AppService_getHello == "Hello World!"

AppService_getHealthUp == [status |-> "up"]
AppService_getHealth == [status |-> "ok"]

\* the injected AppService as the controller sees it: what each of its
\* methods resolves to (ok) or rejects with
RealService ==
    [getHello |-> [ok |-> TRUE, value |-> AppService_getHello],
     getHealth |-> [ok |-> TRUE, value |-> AppService_getHealth]]

\* mutant: the controller answers by itself and leaves the service's result
DelegateLiteral(op, svc) ==
    [op |-> op, invoked |-> op, produced |-> svc[op], returned |-> RealService[op]]

\* return this.appService.getHello() / return this.appService.getHealth():
\* the method of the same name is invoked on the injected service and its
\* promise is returned as it is
Delegate(op, svc) ==
    [op |-> op, invoked |-> op, produced |-> svc[op], returned |-> svc[op]]

AppController_getHello == Delegate("getHello", RealService).returned.value
AppController_getHealth == Delegate("getHealth", RealService).returned.value

\* JSON.stringify of an object with the one string field status
JsonStringify(o) == "{\"status\":\"" \o o.status \o "\"}"

\* @Get() and @Get("health")
RouteTable == {[method |-> "GET", path |-> "/"], [method |-> "GET", path |-> "/health"]}

\* the requests clients send; hdr is an X-Forwarded-For header, which the
\* server does not trust (trustProxy is off), so the client stays the peer
Requests ==
    {[method |-> "GET", path |-> "/", query |-> "", hdr |-> ""],
     [method |-> "GET", path |-> "/", query |-> "?name=x", hdr |-> "10.9.9.9"],
     [method |-> "GET", path |-> "/health", query |-> "", hdr |-> ""],
     [method |-> "GET", path |-> "/missing", query |-> "", hdr |-> ""],
     [method |-> "POST", path |-> "/", query |-> "", hdr |-> ""]}

NoResp ==
    [client |-> "", method |-> "", path |-> "", query |-> "", hdr |-> "",
     status |-> 0,
     ctype |-> "", body |-> "", headers |-> {},
     stages |-> <<>>, handled |-> FALSE, count |-> 0, seen |-> 0,
     inWindow |-> FALSE]

\* mutant: the health reply tells whether a database is configured
RouteReplyLeaky(rq) ==
    IF rq.path = "/"
    THEN [status |-> 200, ctype |-> "text/plain", body |-> AppController_getHello]
    ELSE [status |-> 200, ctype |-> "application/json",
          body |-> JsonStringify([status |-> IF env.DATABASE_URL = Undef
                                             THEN "ok" ELSE "ok, database set"])]

\* the route handler's reply as Nest's Fastify adapter sends it
RouteReply(rq) ==
    IF rq.path = "/"
    THEN [status |-> 200, ctype |-> "text/plain", body |-> AppController_getHello]
    ELSE [status |-> 200, ctype |-> "application/json",
          body |-> JsonStringify(AppController_getHealth)]

TooManyRequests ==
    [status |-> 429, ctype |-> "application/json",
     body |-> "{\"statusCode\":429,\"error\":\"Too Many Requests\",\"message\":\"Rate limit exceeded, retry in 1 minute\"}"]

\* mutant: a catch-all route answers what no route matches
NotFoundFallback(rq) ==
    [status |-> 200, ctype |-> "text/plain", body |-> AppController_getHello]

NotFound(rq) ==
    [status |-> 404, ctype |-> "application/json",
     body |-> "{\"message\":\"Cannot " \o rq.method \o " " \o rq.path
              \o "\",\"error\":\"Not Found\",\"statusCode\":404}"]

-----------------------------------------------------------------------------
(* @fastify/rate-limit with max: 100, timeWindow: "1 minute" *)

NoEntry == [present |-> FALSE, current |-> 0, iterationStartMs |-> 0]

\* mutant: a window, once opened, is never renewed
IncrNoRenewal(entry, t) ==
    IF ~entry.present
    THEN [present |-> TRUE, current |-> 1, iterationStartMs |-> t]
    ELSE [entry EXCEPT !.current = entry.current + 1]

\* LocalStore.incr: the first request of a client, or the first after its
\* window ran out, opens a window at the current time with count 1
Incr(entry, t) ==
    IF ~entry.present \/ entry.iterationStartMs + TimeWindow <= t
    THEN [present |-> TRUE, current |-> 1, iterationStartMs |-> t]
    ELSE [entry EXCEPT !.current = entry.current + 1]

\* mutant: the comparison lets one request more through
AllowedOneMore(entry) == entry.current <= Max + 1

\* the onRequest hook lets the request through while the count is within max
Allowed(entry) == entry.current <= Max

\* mutant: one counter for all clients
KeyGeneratorShared(c, rq) == CHOOSE k \in Clients : TRUE

\* the default keyGenerator: request.ip, which is the peer's address (the
\* adapter is created without trustProxy, so X-Forwarded-For is not read)
KeyGenerator(c, rq) == c

\* headers the hook adds to the replies it handles: the quota on all, and
\* Retry-After on a rejection
RateLimitHeaders(pass) ==
    {"x-ratelimit-limit", "x-ratelimit-remaining", "x-ratelimit-reset"}
    \cup (IF pass THEN {} ELSE {"retry-after"})

-----------------------------------------------------------------------------
(* @fastify/helmet with contentSecurityPolicy: false *)

\* mutant: the option left out, helmet's default applies
HelmetOptionsDefault == [contentSecurityPolicy |-> TRUE]

HelmetOptions == [contentSecurityPolicy |-> FALSE]

\* headers helmet sets on a reply
HelmetHeaders(opts) ==
    {"x-content-type-options", "x-frame-options", "x-dns-prefetch-control",
     "x-download-options", "x-permitted-cross-domain-policies", "x-xss-protection",
     "referrer-policy", "strict-transport-security"}
    \cup (IF opts.contentSecurityPolicy THEN {"content-security-policy"} ELSE {})

InSeq(x, xs) == \E i \in 1..Len(xs) : xs[i] = x

\* the longest prefix of cs made of digits
RECURSIVE LeadingDigits(_)
LeadingDigits(cs) ==
    IF cs # <<>> /\ cs[1] \in Digit
    THEN <<cs[1]>> \o LeadingDigits(Tail(cs)) ELSE <<>>

\* JavaScript parseInt(s, 10): leading white space, a sign, then the leading
\* digits; NaN when there is none
ParseInt(cs) ==
    LET t == TrimLeft(cs)
        signed == t # <<>> /\ t[1] \in {"+", "-"}
        u == IF signed THEN Tail(t) ELSE t
        ds == LeadingDigits(u)
    IN  IF ds = <<>> THEN [nan |-> TRUE, n |-> 0]
        ELSE [nan |-> FALSE,
              n |-> IF signed /\ t[1] = "-" THEN 0 - DecimalValue(ds)
                    ELSE DecimalValue(ds)]

\* process.env["PORT"] ?? "3000"
PortText(e) == IF e.PORT.t = "undefined" THEN <<"3", "0", "0", "0">> ELSE e.PORT.s

-----------------------------------------------------------------------------
(* The process *)

NoTally == [start |-> 0, n |-> 0, served |-> 0, rejected |-> 0]
NoProbe == [on |-> FALSE, client |-> "", start |-> 0, n |-> 0, served |-> 0,
            rejected |-> 0]

Fresh ==
    /\ validation = NotRun
    /\ validations = 0
    /\ stderr = <<>>
    /\ exitCode = -1
    /\ helmetOn = FALSE
    /\ rateLimitOn = FALSE
    /\ routes = {}
    /\ listenPort = -1
    /\ now = 0
    /\ store = [c \in AllClients |-> NoEntry]
    /\ resp = NoResp
    /\ inflight = EmptyBag
    /\ pending = <<>>
    /\ counted = <<>>
    /\ tally = [c \in AllClients |-> NoTally]
    /\ probe = NoProbe

Init ==
    /\ env \in StartupEnvs
    /\ pc = "load"
    /\ calls = <<>>
    /\ Fresh

\* mutant: the error is logged and start-up goes on
LoadConfigLenient(r) ==
    /\ validation' = r
    /\ validations' = validations + 1
    /\ pc' = "create"
    /\ stderr' = r.details
    /\ UNCHANGED exitCode

\* ConfigModule.forRoot with the schema's result r: an error is thrown as
\* "Config validation error: ..."; nothing catches it, so the process prints
\* it and exits with status 1
LoadConfig(r) ==
    /\ validation' = r
    /\ validations' = validations + 1
    /\ IF r.ok
       THEN /\ pc' = "create"
            /\ UNCHANGED <<stderr, exitCode>>
       ELSE /\ pc' = "exited"
            /\ stderr' = r.details
            /\ exitCode' = 1

\* app.module.ts is loaded: ConfigModule.forRoot validates process.env
ValidateConfig ==
    /\ pc = "load"
    /\ LoadConfig(Validate(env, ValidationOptions))
    /\ UNCHANGED <<env, helmetOn, rateLimitOn, routes, listenPort, now, store, resp,
                   inflight, pending, counted, calls, tally, probe>>

\* mutant: the controllers' routes are bound as the application is created
NestFactoryCreateBindsRoutes ==
    /\ pc = "create"
    /\ routes' = RouteTable
    /\ pc' = "helmet"
    /\ UNCHANGED <<env, validation, validations, stderr, exitCode, helmetOn,
                   rateLimitOn, listenPort, now, store, resp,
                   inflight, pending, counted, calls, tally, probe>>

\* NestFactory.create(AppModule, new FastifyAdapter(...))
NestFactoryCreate ==
    /\ pc = "create"
    /\ pc' = "helmet"
    /\ UNCHANGED <<env, validation, validations, stderr, exitCode, helmetOn,
                   rateLimitOn, routes, listenPort, now, store, resp,
                   inflight, pending, counted, calls, tally, probe>>

\* mutant: the helmet registration is left out
RegisterHelmetDropped ==
    /\ pc = "helmet"
    /\ pc' = "rateLimit"
    /\ UNCHANGED <<env, validation, validations, stderr, exitCode, helmetOn,
                   rateLimitOn, routes, listenPort, now, store, resp,
                   inflight, pending, counted, calls, tally, probe>>

\* await fastifyInstance.register(helmet, { contentSecurityPolicy: false })
RegisterHelmet ==
    /\ pc = "helmet"
    /\ helmetOn' = TRUE
    /\ pc' = "rateLimit"
    /\ UNCHANGED <<env, validation, validations, stderr, exitCode,
                   rateLimitOn, routes, listenPort, now, store, resp,
                   inflight, pending, counted, calls, tally, probe>>

\* await fastifyInstance.register(rateLimit, { max: 100, timeWindow: "1 minute" })
RegisterRateLimit ==
    /\ pc = "rateLimit"
    /\ rateLimitOn' = TRUE
    /\ store' = [c \in AllClients |-> NoEntry]
    /\ pc' = "init"
    /\ UNCHANGED <<env, validation, validations, stderr, exitCode, helmetOn,
                   routes, listenPort, now, resp,
                   inflight, pending, counted, calls, tally, probe>>

\* parseInt(process.env["PORT"] ?? "3000", 10), then app.listen: Nest first
\* initialises the application, which binds the controller's routes
RegisterRoutes ==
    /\ pc = "init"
    /\ routes' = RouteTable
    /\ pc' = "listen"
    /\ UNCHANGED <<env, validation, validations, stderr, exitCode, helmetOn,
                   rateLimitOn, listenPort, now, store, resp,
                   inflight, pending, counted, calls, tally, probe>>

\* app.listen(port, "0.0.0.0"): the socket is bound; a port that is no
\* number makes listen throw, and the rejected bootstrap() ends the process
Listen ==
    /\ pc = "listen"
    /\ LET port == ParseInt(PortText(env))
       IN  IF port.nan \/ port.n < 0 \/ port.n > PortMax
           THEN /\ pc' = "exited"
                /\ exitCode' = 1
                /\ stderr' = <<[path |-> "listen", type |-> "ERR_SOCKET_BAD_PORT"]>>
                /\ UNCHANGED listenPort
           ELSE /\ pc' = "listening"
                /\ listenPort' = port.n
                /\ UNCHANGED <<exitCode, stderr>>
    /\ UNCHANGED <<env, validation, validations, helmetOn, rateLimitOn,
                   routes, now, store, resp,
                   inflight, pending, counted, calls, tally, probe>>

\* a client connects while no socket is listening
Refused(c) ==
    /\ pc # "listening"
    /\ resp' = [NoResp EXCEPT !.client = c]
    /\ UNCHANGED <<env, pc, validation, validations, stderr, exitCode, helmetOn,
                   rateLimitOn, routes, listenPort, now, store,
                   inflight, pending, counted, calls, tally, probe>>

IsRouted(rq) == [method |-> rq.method, path |-> rq.path] \in routes

\* the onRequest hooks of a request in the order Fastify runs them: those
\* added to the instance (helmet's addHook), then those of the route (the
\* rate limiter's onRoute hook appends its check to every bound route; a
\* request that matches no route has none)
Hooks(routed) ==
    (IF helmetOn THEN <<"helmet">> ELSE <<>>)
    \o (IF routed /\ rateLimitOn THEN <<"rateLimit">> ELSE <<>>)

\* the hooks that ran: the rate limiter's rejection ends the chain
Ran(hooks, pass) ==
    IF pass THEN hooks ELSE SubSeq(hooks, 1, IndexOf(hooks, {"rateLimit"}))

\* whether the rate limiter's hook is among the hooks of rq
Limited(rq) == InSeq("rateLimit", Hooks(IsRouted(rq)))

\* the limiter's entry for the client once the hook has counted rq
EntryAfter(c, rq) ==
    IF Limited(rq)
    THEN Incr(store[KeyGenerator(c, rq)], now)
    ELSE store[KeyGenerator(c, rq)]

\* what the limiter's hook reads when its await on the store's incr is
\* over.  incr hands its result to a callback that resolves a Promise; the
\* hook goes on in a later microtask and takes the count from that result.
\* Releases of @fastify/rate-limit differ in what the result is: a record
\* made for the call (returned), or the stored entry itself (entry), which
\* by then carries the increments of the requests counted in between.
IncrResult(returned, entry) == {returned, entry}

Reply(rq, routed, pass) ==
    IF ~routed THEN NotFound(rq)
    ELSE IF pass THEN RouteReply(rq) ELSE TooManyRequests

\* the reply as the client gets it; count is what the limiter's counter
\* stood at when it counted the request, seen the count its hook read for
\* the decision (x-ratelimit-remaining is max less seen), inWindow whether
\* the client's window was running then
Response(c, rq, routed, ran, pass, entry, read) ==
    [client |-> c, method |-> rq.method, path |-> rq.path,
     query |-> rq.query, hdr |-> rq.hdr,
     status |-> Reply(rq, routed, pass).status,
     ctype |-> Reply(rq, routed, pass).ctype,
     body |-> Reply(rq, routed, pass).body,
     headers |-> (IF InSeq("helmet", ran) THEN HelmetHeaders(HelmetOptions) ELSE {})
                 \cup (IF InSeq("rateLimit", ran) THEN RateLimitHeaders(pass) ELSE {}),
     stages |-> ran \o (IF routed /\ pass THEN <<"handler", "service">> ELSE <<>>)
                \o <<"response">>,
     handled |-> routed /\ pass,
     count |-> entry.current,
     seen |-> read.current,
     inWindow |-> entry.present /\ now < entry.iterationStartMs + TimeWindow]

\* observer: the client's window in force at time t (a window opens with
\* the first request to a route, or the first after a minute), with one
\* more request counted
Counted(tl, t) ==
    IF tl.n = 0 \/ tl.start + TimeWindow <= t
    THEN [start |-> t, n |-> 1, served |-> 0, rejected |-> 0]
    ELSE [tl EXCEPT !.n = tl.n + 1]

\* observer: one more of the counted requests answered
Settled(tl, status) ==
    [tl EXCEPT !.served = tl.served + (IF status = 200 THEN 1 ELSE 0),
               !.rejected = tl.rejected + (IF status = 429 THEN 1 ELSE 0)]

\* observer: one more request of the probed client inside the probed minute
Probed(pr, status) ==
    [pr EXCEPT !.n = pr.n + 1,
               !.served = pr.served + (IF status = 200 THEN 1 ELSE 0),
               !.rejected = pr.rejected + (IF status = 429 THEN 1 ELSE 0)]

InProbe(c, t) ==
    probe.on /\ probe.client = c /\ probe.start <= t /\ t < probe.start + TimeWindow

\* the reply to a request that the limiter does not see: not found, or the
\* route's
ResponseTo(c, rq) ==
    Response(c, rq, IsRouted(rq), Hooks(IsRouted(rq)), TRUE,
             store[KeyGenerator(c, rq)], store[KeyGenerator(c, rq)])

\* the reply to the counted request h, whose hook read the count in read
Decision(h, read) ==
    Response(h.client, h.rq, TRUE, Ran(Hooks(TRUE), Allowed(read)),
             Allowed(read), h.entry, read)

\* the socket hands over a request, alone or with others (requests that
\* come with one read of a connection are handed over before the hooks of
\* any of them have got past their first await)
Accept(c, rq) ==
    /\ pc = "listening"
    /\ pending = <<>>
    /\ counted = <<>>
    /\ BagCardinality(inflight) < MaxInflight
    /\ inflight' = inflight (+) SetToBag({[client |-> c, rq |-> rq]})
    /\ UNCHANGED <<env, pc, validation, validations, stderr, exitCode, helmetOn,
                   rateLimitOn, routes, listenPort, now, store, resp, pending, counted,
                   calls, tally, probe>>

\* a request that arrives on its own
Arrive(c, rq) ==
    /\ inflight = EmptyBag
    /\ Accept(c, rq)

\* the onRequest hooks of one of the requests handed over are run as far as
\* they go without waiting: helmet's, then, for a bound route, the rate
\* limiter's, which has LocalStore.incr count the request and then awaits
\* the result.  A request that matches no route is answered 404 from here.
Process(c, rq) ==
    /\ pc = "listening"
    /\ BagIn([client |-> c, rq |-> rq], inflight)
    /\ inflight' = inflight (-) SetToBag({[client |-> c, rq |-> rq]})
    /\ IF Limited(rq)
       THEN /\ EntryAfter(c, rq).current <= Max + MaxExcess
            /\ store' = [store EXCEPT ![KeyGenerator(c, rq)] = EntryAfter(c, rq)]
            /\ counted' = Append(counted, [client |-> c, rq |-> rq,
                                           entry |-> EntryAfter(c, rq)])
            /\ tally' = [tally EXCEPT ![c] = Counted(tally[c], now)]
            /\ UNCHANGED <<resp, pending, probe>>
       ELSE /\ IF IsRouted(rq)
               THEN /\ pending' = Append(pending, ResponseTo(c, rq))
                    /\ tally' = [tally EXCEPT ![c] = Settled(Counted(tally[c], now), 200)]
                    /\ probe' = IF InProbe(c, now) THEN Probed(probe, 200) ELSE probe
                    /\ UNCHANGED resp
               ELSE /\ resp' = ResponseTo(c, rq)
                    /\ UNCHANGED <<pending, tally, probe>>
            /\ UNCHANGED <<store, counted>>
    /\ UNCHANGED <<env, pc, validation, validations, stderr, exitCode, helmetOn,
                   rateLimitOn, routes, listenPort, now, calls>>

\* the limiter's hook of the counted request h goes on with the count read:
\* past max it replies 429 and the chain ends; else it sets the quota
\* headers, the route handler is called, and what that returns is a
\* Promise, so the reply is sent in a later step
Settle(h, read) ==
    /\ counted' = Tail(counted)
    /\ IF Decision(h, read).handled
       THEN /\ pending' = Append(pending, Decision(h, read))
            /\ UNCHANGED resp
       ELSE /\ resp' = Decision(h, read)
            /\ UNCHANGED pending
    /\ tally' = [tally EXCEPT ![h.client] = Settled(tally[h.client], Decision(h, read).status)]
    /\ probe' = IF InProbe(h.client, now) THEN Probed(probe, Decision(h, read).status)
                ELSE probe
    /\ UNCHANGED <<env, pc, validation, validations, stderr, exitCode, helmetOn,
                   rateLimitOn, routes, listenPort, now, store, inflight, calls>>

\* the oldest waiting hook resumes; another request may have been counted
\* since it began to wait
Decide ==
    /\ pc = "listening"
    /\ counted # <<>>
    /\ \E read \in IncrResult(Head(counted).entry,
                             store[KeyGenerator(Head(counted).client, Head(counted).rq)]) :
           Settle(Head(counted), read)

\* the Promise of the oldest handler call is settled and its reply sent; by
\* then the hooks of all the requests handed over have run
SendReply ==
    /\ pc = "listening"
    /\ inflight = EmptyBag
    /\ counted = <<>>
    /\ pending # <<>>
    /\ resp' = Head(pending)
    /\ pending' = Tail(pending)
    /\ UNCHANGED <<env, pc, validation, validations, stderr, exitCode, helmetOn,
                   rateLimitOn, routes, listenPort, now, store, inflight, counted,
                   calls, tally, probe>>

\* observer: start watching one minute of a client's traffic
StartProbe(c) ==
    /\ pc = "listening"
    /\ ~probe.on
    /\ probe' = [NoProbe EXCEPT !.on = TRUE, !.client = c, !.start = now]
    /\ UNCHANGED <<env, pc, validation, validations, stderr, exitCode, helmetOn,
                   rateLimitOn, routes, listenPort, now, store, resp, inflight, pending, counted,
                   calls, tally>>

\* time passes
Tick ==
    /\ pc = "listening"
    /\ inflight = EmptyBag /\ counted = <<>> /\ pending = <<>>
    /\ now + TickMs <= MaxTicks * TickMs
    /\ now' = now + TickMs
    /\ UNCHANGED <<env, pc, validation, validations, stderr, exitCode, helmetOn,
                   rateLimitOn, routes, listenPort, store, resp,
                   inflight, pending, counted, calls, tally, probe>>

\* bootstrap() up to the listening socket
Startup ==
    \/ ValidateConfig
    \/ NestFactoryCreate
    \/ RegisterHelmet
    \/ RegisterRateLimit
    \/ RegisterRoutes
    \/ Listen

Next ==
    \/ Startup
    \/ \E c \in Clients : Refused(c)
    \/ \E c \in Clients, rq \in Requests : Arrive(c, rq)
    \/ \E c \in Clients, rq \in Requests : Process(c, rq)
    \/ Decide
    \/ SendReply
    \/ Tick

Spec == Init /\ [][Next]_vars

-----------------------------------------------------------------------------
(* The schema on its own, over every mapping of EnvInputs *)

InitValidate ==
    /\ env \in EnvInputs
    /\ pc = "schema"
    /\ calls = <<>>
    /\ Fresh

\* ConfigValidationSchema.validate(env, validationOptions)
SchemaValidate ==
    /\ pc = "schema"
    /\ validation' = Validate(env, ValidationOptions)
    /\ validations' = validations + 1
    /\ pc' = "validated"
    /\ UNCHANGED <<env, stderr, exitCode, helmetOn, rateLimitOn, routes,
                   listenPort, now, store, resp,
                   inflight, pending, counted, calls, tally, probe>>

NextValidate == SchemaValidate

SpecValidate == InitValidate /\ [][NextValidate]_vars

-----------------------------------------------------------------------------
(* The server started with an empty environment, under closer observation *)

DefaultEnv ==
    [NODE_ENV |-> Undef, PORT |-> Undef, API_KEY |-> Undef, DATABASE_URL |-> Undef,
     HOME |-> Undef]

InitDefault ==
    /\ env = DefaultEnv
    /\ pc = "load"
    /\ calls = <<>>
    /\ Fresh

\* plain requests to the two routes
RoutedRequests ==
    {rq \in Requests :
        [method |-> rq.method, path |-> rq.path] \in RouteTable /\ rq.query = ""}

\* plain requests to GET /
HelloRequests == {rq \in RoutedRequests : rq.path = "/"}

\* one client, watched over a minute that starts at any time
NextRolling ==
    \/ Startup
    \/ \E c \in Clients, rq \in HelloRequests : Arrive(c, rq)
    \/ \E c \in Clients, rq \in HelloRequests : Process(c, rq)
    \/ Decide
    \/ SendReply
    \/ \E c \in Clients : StartProbe(c)
    \/ Tick

SpecRolling == InitDefault /\ [][NextRolling]_vars

\* a request to each route, one of them with a query and a header, and a
\* request to no route
ConcurrentRequests ==
    {rq \in Requests : rq.method = "GET" /\ (rq.path # "/" \/ rq.query # "")}

\* one client whose requests are accepted together and run in any order
NextConcurrent ==
    \/ Startup
    \/ \E c \in Clients, rq \in ConcurrentRequests : Accept(c, rq)
    \/ \E c \in Clients, rq \in ConcurrentRequests : Process(c, rq)
    \/ Decide
    \/ SendReply
    \/ Tick

SpecConcurrent == InitDefault /\ [][NextConcurrent]_vars

\* two clients
NextTwoClients ==
    \/ Startup
    \/ \E c \in AllClients, rq \in HelloRequests : Arrive(c, rq)
    \/ \E c \in AllClients, rq \in HelloRequests : Process(c, rq)
    \/ Decide
    \/ SendReply
    \/ Tick

SpecTwoClients == InitDefault /\ [][NextTwoClients]_vars

\* valid environments that differ in the two secrets only
SecretEnvs ==
    {[DefaultEnv EXCEPT !.API_KEY = k, !.DATABASE_URL = u] :
        k \in {Undef, Str(<<>>), Str(<<"k", "3", "y">>)},
        u \in {Undef, Str(sPgUrl), Str(sPgUrlFull)}}

InitSecrets ==
    /\ env \in SecretEnvs
    /\ pc = "load"
    /\ calls = <<>>
    /\ Fresh

\* one client and every kind of request, whatever the secrets are
NextSecrets ==
    \/ Startup
    \/ \E c \in Clients, rq \in Requests : Arrive(c, rq)
    \/ \E c \in Clients, rq \in Requests : Process(c, rq)
    \/ Decide
    \/ SendReply
    \/ Tick

SpecSecrets == InitSecrets /\ [][NextSecrets]_vars

-----------------------------------------------------------------------------
(* AppService called directly, as its unit tests do *)

ServiceOps == {"getHello", "getHealth"}

\* mutant: the service keeps state, and its greeting grows once it has
\* been called
ServiceResultStateful(op, prior) ==
    [op |-> op, ok |-> TRUE,
     value |-> IF op = "getHello"
               THEN (IF prior = <<>> THEN AppService_getHello
                     ELSE AppService_getHello \o "!")
               ELSE AppService_getHealth]

\* what a call of op resolves to after the calls of prior: the methods read
\* no field and return Promise.resolve of a literal
ServiceResult(op, prior) ==
    [op |-> op, ok |-> TRUE,
     value |-> IF op = "getHello" THEN AppService_getHello ELSE AppService_getHealth]

InitService ==
    /\ env = DefaultEnv
    /\ pc = "service"
    /\ calls = <<>>
    /\ Fresh

\* await service.getHello() / await service.getHealth(): the methods assign
\* nothing
Call(op) ==
    /\ pc = "service"
    /\ Len(calls) < MaxCalls
    /\ calls' = Append(calls, ServiceResult(op, calls))
    /\ UNCHANGED <<env, pc, validation, validations, stderr, exitCode, helmetOn,
                   rateLimitOn, routes, listenPort, now, store, resp, inflight, pending,
                   counted, tally, probe>>

NextService == \E op \in ServiceOps : Call(op)

SpecService == InitService /\ [][NextService]_vars

-----------------------------------------------------------------------------
(* AppController called directly with a stand-in service, as its unit tests do *)

\* what the stand-in's methods may produce: the real results, other values,
\* and a rejection
HelloResults ==
    {[ok |-> TRUE, value |-> "Hello World!"], [ok |-> TRUE, value |-> ""],
     [ok |-> TRUE, value |-> "Bonjour"], [ok |-> FALSE, value |-> "Error: down"]}
HealthResults ==
    {[ok |-> TRUE, value |-> [status |-> "ok"]],
     [ok |-> TRUE, value |-> [status |-> "degraded"]],
     [ok |-> FALSE, value |-> [status |-> "Error: down"]]}
StandInServices == [getHello : HelloResults, getHealth : HealthResults]

InitController ==
    /\ env = DefaultEnv
    /\ pc = "controller"
    /\ calls = <<>>
    /\ Fresh

\* await appController.getHello() / await appController.getHealth() with
\* the stand-in set up as svc
ControllerCall(op, svc) ==
    /\ pc = "controller"
    /\ Len(calls) < MaxControllerCalls
    /\ calls' = Append(calls, Delegate(op, svc))
    /\ UNCHANGED <<env, pc, validation, validations, stderr, exitCode, helmetOn,
                   rateLimitOn, routes, listenPort, now, store, resp, inflight, pending,
                   counted, tally, probe>>

NextController == \E op \in ServiceOps, svc \in StandInServices : ControllerCall(op, svc)

SpecController == InitController /\ [][NextController]_vars

-----------------------------------------------------------------------------
(* Properties *)

HasDetail(k) == \E i \in 1..Len(validation.details) : validation.details[i].path = k

\* C1: start-up is sequential: neither middleware is installed before the
\* configuration has been validated successfully, the server listens only
\* with both middleware installed, and a connection is accepted only after
\* validation succeeded and the server listens.
StartupIsSequential ==
    /\ (helmetOn \/ rateLimitOn) => (validations = 1 /\ validation.ok)
    /\ (pc = "listening" \/ listenPort # -1) => (helmetOn /\ rateLimitOn)
    /\ resp.status # 0 => (validation.ok /\ pc = "listening")

\* C1 witness: the server listens behind both middleware and has served a request
StartupReachedServing ==
    /\ pc = "listening"
    /\ helmetOn /\ rateLimitOn
    /\ validation.ok
    /\ resp.status = 200

\* C2: a failed validation is fatal: the process is over with a non-zero
\* exit status and the validation error on its error output, it never
\* listened, installed nothing, answered no request, and ran the validation
\* exactly once.
ValidationFailureIsFatal ==
    (validations > 0 /\ ~validation.ok) =>
        /\ pc = "exited"
        /\ exitCode > 0
        /\ stderr # <<>> /\ stderr = validation.details
        /\ listenPort = -1
        /\ ~helmetOn /\ ~rateLimitOn /\ routes = {}
        /\ resp.status = 0
        /\ validations = 1

\* C2 witness: validation failed, the process is gone, and a client that
\* tried to connect afterwards got nothing
FailedStartupRefusesClients ==
    /\ validations = 1 /\ ~validation.ok
    /\ pc = "exited" /\ exitCode = 1
    /\ resp.client # "" /\ resp.status = 0

\* C3 (as claimed): a request that comes when its client's count in the
\* running window is past the quota is answered with a 429 and reaches no
\* route handler.
QuotaExcessGets429 ==
    (resp.status # 0 /\ resp.inWindow /\ resp.count > Max)
        => (resp.status = 429 /\ ~resp.handled)

IsHello == resp.status # 0 /\ resp.method = "GET" /\ resp.path = "/"
IsHealth == resp.status # 0 /\ resp.method = "GET" /\ resp.path = "/health"
    /\ store[resp.client].current > Max

Validated == pc = "validated"

DefaultsApplied ==
    /\ validation.ok
    /\ validation.value.NODE_ENV = Str(sDevelopment)
    /\ validation.value.PORT = Num(3000)

\* C6 (as claimed): whenever NODE_ENV and PORT are absent, validation
\* succeeds with NODE_ENV = development and PORT = 3000.
DefaultsWhenAbsent ==
    (Validated /\ env.NODE_ENV = Undef /\ env.PORT = Undef) => DefaultsApplied

MalformedUrlInputs ==
    {Str(<<"d", "b">>), Str(<<"a", " ", "b">>), Str(sNoScheme), Str(sSpaceInPath)}

\* C6 (amended): whenever NODE_ENV and PORT are absent and DATABASE_URL is
\* absent, empty or a well-formed URI, validation succeeds with
\* NODE_ENV = development and PORT = 3000.
DefaultsWhenAbsentAndUrlValid ==
    (/\ Validated
     /\ env.NODE_ENV = Undef /\ env.PORT = Undef
     /\ env.DATABASE_URL \notin MalformedUrlInputs) => DefaultsApplied

\* C6 witness: defaults applied to a mapping that holds other keys
DefaultsAppliedBesideOtherKeys ==
    /\ Validated
    /\ env.NODE_ENV = Undef /\ env.PORT = Undef
    /\ env.DATABASE_URL = Str(sPgUrl) /\ env.HOME # Undef /\ env.API_KEY = Str(<<>>)
    /\ DefaultsApplied

\* mappings whose NODE_ENV and PORT pass, so that a later key is the first
\* one that can be found invalid
EarlierKeysPass == ~HasDetail("NODE_ENV") /\ ~HasDetail("PORT")

\* C11: API_KEY is accepted absent and for every string, the empty one
\* included; DATABASE_URL is accepted exactly when it is absent, empty or a
\* well-formed URI, and a validation that fails on neither earlier key
\* fails exactly on a present, non-empty, non-URI DATABASE_URL.
OptionalFieldsAccepted ==
    (Validated /\ EarlierKeysPass) =>
        /\ ~HasDetail("API_KEY")
        /\ validation.value.API_KEY = env.API_KEY
        /\ HasDetail("DATABASE_URL") <=> env.DATABASE_URL \in MalformedUrlInputs
        /\ validation.ok <=> env.DATABASE_URL \notin MalformedUrlInputs
        /\ validation.ok => validation.value.DATABASE_URL = env.DATABASE_URL

\* C11 witness: an empty API_KEY beside a URI with user, port, query and
\* fragment passes
EmptyKeyAndFullUriAccepted ==
    /\ Validated
    /\ env.API_KEY = Str(<<>>) /\ env.DATABASE_URL = Str(sPgUrlFull)
    /\ validation.ok

\* C7: a present NODE_ENV outside development / production / test fails
\* validation; one inside passes and is returned as given.
NodeEnvClosedSet ==
    (Validated /\ env.NODE_ENV # Undef) =>
        IF env.NODE_ENV.s \in {<<"d", "e", "v", "e", "l", "o", "p", "m", "e", "n", "t">>,
                               <<"p", "r", "o", "d", "u", "c", "t", "i", "o", "n">>,
                               <<"t", "e", "s", "t">>}
        THEN ~HasDetail("NODE_ENV") /\ validation.value.NODE_ENV = env.NODE_ENV
        ELSE ~validation.ok /\ HasDetail("NODE_ENV")

\* C7 witness: a NODE_ENV that differs from an allowed one only in case is rejected
NodeEnvWrongCaseRejected ==
    /\ Validated
    /\ env.NODE_ENV = Str(<<"P", "r", "o", "d", "u", "c", "t", "i", "o", "n">>)
    /\ ~validation.ok

\* PORT is the first key found invalid exactly when NODE_ENV is fine
PortPasses == ~HasDetail("PORT")
NodeEnvFine == ~HasDetail("NODE_ENV")
InPortRange(p) == 1 <= p /\ p <= 65535

\* C8: a present PORT passes exactly when it is an integer p in 1..65535,
\* and then the normalised PORT is p: for a number, for a decimal numeral,
\* and for any other raw value that passes.
PortRange ==
    (Validated /\ env.PORT # Undef /\ NodeEnvFine) =>
        /\ env.PORT.t = "number" =>
            /\ PortPasses <=> (~env.PORT.frac /\ InPortRange(env.PORT.n))
            /\ PortPasses => validation.value.PORT = env.PORT
        /\ (env.PORT.t = "string" /\ env.PORT.s # <<>> /\ IsDigits(env.PORT.s)) =>
            /\ PortPasses <=> InPortRange(DecimalValue(env.PORT.s))
            /\ PortPasses => validation.value.PORT = Num(DecimalValue(env.PORT.s))
        /\ (env.PORT.t = "string" /\ \A i \in 1..Len(env.PORT.s) : env.PORT.s[i] \notin Digit)
            => ~PortPasses
        /\ PortPasses =>
            /\ validation.value.PORT.t = "number"
            /\ ~validation.value.PORT.frac
            /\ InPortRange(validation.value.PORT.n)

\* C8 witness: the largest port passes and is returned unchanged
PortUpperLimitAccepted ==
    /\ Validated
    /\ env.PORT = Num(65535)
    /\ validation.ok /\ validation.value.PORT = Num(65535)

\* C9 (as claimed): when start-up validation fails, the error written for
\* the operator names every key whose value is invalid.
ErrorNamesEveryInvalidKey ==
    (pc = "exited" /\ validations = 1 /\ ~validation.ok) =>
        \A i \in 1..Len(SchemaKeys) :
            ValidateKey(SchemaKeys[i], env[SchemaKeys[i]]).errs # <<>>
            => \E j \in 1..Len(stderr) : stderr[j].path = SchemaKeys[i]

\* C10: keys the schema does not know never change whether validation
\* succeeds: the outcome is that of the same mapping without them.
UnknownKeysTolerated ==
    Validated =>
        /\ validation.ok = Validate([env EXCEPT !.HOME = Undef], ValidationOptions).ok
        /\ ~HasDetail("HOME")

\* C10 witness: a mapping with an unknown key passes
UnknownKeyAccepted ==
    /\ Validated
    /\ env.HOME # Undef
    /\ validation.ok /\ validation.value.HOME = env.HOME

\* C13 (as claimed): a process whose environment passed validation listens,
\* and the port it handed to listen is the normalised PORT of the validator.
ListensOnValidatedPort ==
    (validations = 1 /\ validation.ok /\ pc \in {"listening", "exited"}) =>
        /\ pc = "listening"
        /\ Num(listenPort) = validation.value.PORT

StageAt(x) == IndexOf(resp.stages, {x})

\* C16 (as claimed): the rate-limit check happens before the
\* header-hardening stage, and both happen before the route handler.
LimiterBeforeHelmetBeforeHandler ==
    resp.status # 0 =>
        /\ (InSeq("rateLimit", resp.stages) /\ InSeq("helmet", resp.stages))
            => StageAt("rateLimit") < StageAt("helmet")
        /\ resp.handled =>
            /\ InSeq("rateLimit", resp.stages) /\ InSeq("helmet", resp.stages)
            /\ StageAt("rateLimit") < StageAt("handler")
            /\ StageAt("helmet") < StageAt("handler")

WasRouted == [method |-> resp.method, path |-> resp.path] \in RouteTable

\* C19: helmet is registered before the rate limiter, both before any route
\* is bound, and a request that reached a route handler went through both.
MiddlewareBeforeRoutes ==
    /\ rateLimitOn => helmetOn
    /\ routes # {} => (helmetOn /\ rateLimitOn)
    /\ resp.handled =>
        /\ helmetOn /\ rateLimitOn
        /\ InSeq("helmet", resp.stages) /\ InSeq("rateLimit", resp.stages)

\* C19 witness: the routes have just been bound, behind both middleware,
\* and the socket is not open yet
RoutesBoundBehindBoth ==
    /\ pc = "listen"
    /\ routes = RouteTable
    /\ helmetOn /\ rateLimitOn

\* the number of client c's requests that are counted and not yet decided
Waiting(c) == Cardinality({i \in 1..Len(counted) : counted[i].client = c})

\* C14 (as claimed): in every interval of one minute, wherever it starts,
\* at most 100 of a client's requests are passed to a route handler and its
\* other requests receive 429.
RollingMinuteCap ==
    probe.on =>
        /\ probe.served <= Max
        /\ probe.rejected = probe.n - probe.served

\* C14 (amended): in every window of the limiter, which opens with the
\* client's first request to a route or its first after the previous window
\* ran out, at most 100 of the client's requests are passed to a route
\* handler and its other requests to the routes receive 429; a minute that
\* starts elsewhere sees at most 200 passed.
FixedWindowCap ==
    /\ \A c \in Clients :
        /\ tally[c].served <= Max
        /\ tally[c].rejected = tally[c].n - tally[c].served - Waiting(c)
    /\ probe.on =>
        /\ probe.served <= 2 * Max
        /\ probe.rejected = probe.n - probe.served

\* C14 witness: a minute that straddles two windows, with more than 100
\* requests passed to a handler in it
StraddlingMinuteServesMore ==
    /\ probe.on
    /\ probe.served > Max
    /\ tally[probe.client].served <= Max
    /\ probe.start < tally[probe.client].start
    /\ now < probe.start + TimeWindow

Min(a, b) == IF a <= b THEN a ELSE b

\* C15: whatever the order in which the requests accepted together are run,
\* no update of the client's counter is lost: the counter equals the number
\* N of the client's requests to the routes in the window, and once they
\* are all decided min(N, 100) of them were served and the other
\* N - min(N, 100) were answered 429.
CountersExact ==
    \A c \in Clients :
        /\ tally[c].n > 0 =>
            /\ store[c].present
            /\ store[c].iterationStartMs = tally[c].start
            /\ store[c].current = tally[c].n
        /\ Waiting(c) = 0 =>
            /\ tally[c].served = Min(tally[c].n, Max)
            /\ tally[c].rejected = tally[c].n - Min(tally[c].n, Max)

\* C17: getHello always resolves to "Hello World!" and getHealth to an
\* object equal to {status: "ok"}, whatever calls came before, neither
\* fails, and the calls leave every other part of the state as it was.
ServiceIsPure ==
    pc = "service" =>
        /\ \A i \in 1..Len(calls) :
            /\ calls[i].ok
            /\ calls[i].op = "getHello" => calls[i].value = "Hello World!"
            /\ calls[i].op = "getHealth" => calls[i].value = [status |-> "ok"]
        /\ Fresh

\* C17 witness: the two operations called in turn
ServiceCalledInTurn ==
    /\ Len(calls) >= 4
    /\ calls[1].op = "getHealth" /\ calls[2].op = "getHello"
    /\ calls[3].op = "getHealth" /\ calls[4].op = "getHello"
    /\ calls[4].value = "Hello World!" /\ calls[3].value = [status |-> "ok"]

\* C20: whether a client's request is answered 429 depends on that client's
\* own requests in its window only: its counter counts its own requests,
\* the count read for its request is that counter's, and the request is
\* answered 429 exactly when that count is past 100; with requests arriving
\* one after the other that is when it is past the 100th of its own.
ClientsIndependent ==
    \A c \in AllClients :
        /\ store[c].present =>
            /\ store[c].current = tally[c].n
            /\ store[c].iterationStartMs = tally[c].start
        /\ (resp.status # 0 /\ resp.client = c) =>
            /\ resp.status = 429 <=> resp.seen > Max
            /\ resp.count <= resp.seen
        /\ Waiting(c) = 0 =>
            tally[c].rejected = (IF tally[c].n > Max THEN tally[c].n - Max ELSE 0)

\* C20 witness: one client is past its quota in a window still running, and
\* the other client's request is served
OtherClientServedAfterExhaustion ==
    \E a \in AllClients, b \in AllClients :
        /\ a # b
        /\ store[a].current > Max
        /\ now < store[a].iterationStartMs + TimeWindow
        /\ resp.client = b /\ resp.status = 200

\* the keys other than PORT hold values the schema accepts
OtherKeysPass ==
    \A i \in 1..Len(SchemaKeys) :
        SchemaKeys[i] # "PORT" => ValidateKey(SchemaKeys[i], env[SchemaKeys[i]]).errs = <<>>

\* C21 (as claimed): with PORT unset or empty, and the other variables
\* valid, start-up reaches a socket listening on port 3000.
UnsetOrEmptyPortListensOn3000 ==
    (/\ env.PORT \in {Undef, Str(<<>>)}
     /\ OtherKeysPass
     /\ pc \in {"listening", "exited"}) =>
        /\ pc = "listening"
        /\ listenPort = 3000

\* C22: every call of a controller method invokes the service method of
\* the same name and returns exactly what the service produced, value or
\* rejection, whatever that is.
ControllerOnlyDelegates ==
    pc = "controller" =>
        \A i \in 1..Len(calls) :
            /\ calls[i].invoked = calls[i].op
            /\ calls[i].returned = calls[i].produced

\* C22 witness: the controller handed on a value the real service never
\* produces, and a rejection
UnusualResultsHandedOn ==
    /\ pc = "controller"
    /\ \E i \in 1..Len(calls) :
        calls[i].op = "getHealth" /\ calls[i].returned = [ok |-> TRUE, value |-> [status |-> "degraded"]]
    /\ \E i \in 1..Len(calls) :
        calls[i].op = "getHello" /\ ~calls[i].returned.ok

\* a step in which the limiter counted a request of client c
CountsRequestOf(c) == store'[c] # store[c]

\* C23: a 429 is not fatal and not lasting: the listening server never
\* leaves the listening state, the first request to a route that a client
\* past its quota sends once its minute is over opens a new window with
\* count 1, a request counted first in its window is handed to its route
\* handler, and what a handler is called for is answered with 200.
RejectionIsTemporary ==
    [][/\ pc = "listening" => pc' = "listening"
       /\ \A c \in Clients :
            (/\ store[c].current > Max
             /\ store[c].iterationStartMs + TimeWindow <= now
             /\ CountsRequestOf(c)) =>
                /\ store'[c].current = 1
                /\ counted' # <<>>
                /\ counted'[Len(counted')].client = c
                /\ counted'[Len(counted')].entry.current = 1
       /\ (Len(counted') < Len(counted) /\ Head(counted).entry.current = 1) =>
            /\ pending' # <<>>
            /\ pending'[Len(pending')].client = Head(counted).client
            /\ pending'[Len(pending')].status = 200
       /\ Len(pending') < Len(pending) =>
            /\ resp' = Head(pending)
            /\ resp'.status = 200 /\ resp'.handled]_vars

\* C23 witness: the client was answered 429 in the watched minute, and in
\* the window opened after that minute its request is served
ServedAgainAfterRejection ==
    /\ pc = "listening"
    /\ probe.on /\ probe.rejected > 0
    /\ tally[probe.client].start >= probe.start + TimeWindow
    /\ pending = <<>> /\ counted = <<>>
    /\ resp.client = probe.client /\ resp.status = 200 /\ resp.count = 1

\* status and body as a function of the request and of n, the number of
\* requests to routes the client has sent in its window as the limiter read
\* it for this one, and of nothing else
SecretFreeReply(method, path, n) ==
    IF [method |-> method, path |-> path] \notin
           {[method |-> "GET", path |-> "/"], [method |-> "GET", path |-> "/health"]}
    THEN [status |-> 404,
          body |-> "{\"message\":\"Cannot " \o method \o " " \o path
                   \o "\",\"error\":\"Not Found\",\"statusCode\":404}"]
    ELSE IF n > Max
    THEN [status |-> 429,
          body |-> "{\"statusCode\":429,\"error\":\"Too Many Requests\",\"message\":\"Rate limit exceeded, retry in 1 minute\"}"]
    ELSE IF path = "/" THEN [status |-> 200, body |-> "Hello World!"]
    ELSE [status |-> 200, body |-> "{\"status\":\"ok\"}"]

\* C24: status and body of every response are a function of the request
\* sequence alone (the request, and how many requests to routes the client
\* has sent in its window); runs that differ only in valid values of
\* API_KEY and DATABASE_URL therefore answer alike, and no response holds
\* a configuration value.
ResponsesIgnoreSecrets ==
    resp.status # 0 =>
        [status |-> resp.status, body |-> resp.body]
            = SecretFreeReply(resp.method, resp.path, resp.seen)

\* C24 witness: a run with both secrets set has served the health route
HealthServedWithSecretsSet ==
    /\ env.API_KEY = Str(<<"k", "3", "y">>)
    /\ env.DATABASE_URL = Str(sPgUrlFull)
    /\ resp.path = "/health" /\ resp.status = 200
    /\ resp.body = "{\"status\":\"ok\"}"

====
